---- MODULE Spec2Model ----
(***************************************************************************)
(* Model of q3.py: the clipboard monitor's cooldown gate, the supervisor   *)
(* (ClipboardMonitor) and the per-notification lifecycle                   *)
(* (TransparentPopup).  Everything runs on the single Qt event loop, so    *)
(* each handler is one atomic action.  Time is counted in ticks; a timer   *)
(* whose time left is 0 is due and fires before time advances again, but   *)
(* any other event of the same instant may run before it.                  *)
(***************************************************************************)
EXTENDS Integers, Sequences, FiniteSets, TLC

\* ---------------------------------------------------------------- durations
\* The durations of the source in ticks.  The model keeps their order
\* (88 ms slide < 100 ms cooldown < 19 s lifetime < one day) and not their
\* magnitude.
SLIDE_IN_DURATION == 1
SLIDE_OUT_DURATION == 1
COOLDOWN_TIME_MS == 2
LIFECYCLE_SECONDS == 3
\* QTime is a time of day: it wraps at midnight, after MSECS_PER_DAY.
MSECS_PER_DAY == 4

\* ---------------------------------------------------------------- bounds
\* Notifications created in one run.
MaxPopups == 3
\* Cooldown single-shot timers pending at once.
MaxTimers == 2
\* Echoed change signals of in-place copies not yet delivered.
MaxEcho == 1
\* Largest remembered remaining lifetime the model follows.
MaxRemaining == 4
\* Calls of calculate_total_size_async in one run.
MaxCalcs == 2
\* Worker threads of the executor (max_workers).
MaxWorkers == 2
\* Type identifiers of one content set.
MaxFormats == 2
\* how far around each unit threshold the byte counts handed to format_size go
SizeWindow == 6

Inactive == -1
NoPopup == 0

VARIABLES
    now,               \* QTime.currentTime(): the time of day
    is_on_cooldown,    \* ClipboardMonitor.is_on_cooldown
    cooldown_timers,   \* pending QTimer.singleShot callbacks of set_cooldown: time left -> how many
    active_popups,     \* ClipboardMonitor.active_popups: the live set, oldest first
    current_color_mode,\* ClipboardMonitor.current_color_mode
    popups,            \* every TransparentPopup constructed so far, by id 1..Len(popups)
    calc_pending,      \* popups whose size aggregation has not delivered calculation_done yet
    echo_pending,      \* dataChanged signals caused by the monitor's own clipboard writes
    last,              \* what the handler that ran last did (observation only)
    accept_age,        \* time since the last accepted change (observation only)
    work_queue,        \* ClipboardMonitor.executor: the work items not yet taken, first in first
    futures,           \* every Future the executor has returned, by id 1..Len(futures)
    threads,           \* the futures the executor's worker threads are running
    emitted,           \* the calculation_done emissions so far, in order
    clipboard,         \* the content set handed to process_clipboard_data
    descriptor,        \* what process_clipboard_data returned for it
    size_input,        \* the byte count handed to format_size
    size_text          \* what format_size returned for it

\* The event loop's state, the worker pool's state, the classifier's, the
\* size formatter's.
monitor_vars == <<now, is_on_cooldown, cooldown_timers, active_popups, current_color_mode,
                  popups, calc_pending, echo_pending, last, accept_age>>
pool_vars == <<work_queue, futures, threads, emitted>>
classifier_vars == <<clipboard, descriptor>>
format_vars == <<size_input, size_text>>

vars == <<monitor_vars, pool_vars, classifier_vars, format_vars>>

Min(a, b) == IF a < b THEN a ELSE b
Max(a, b) == IF a > b THEN a ELSE b

Ids == 1..Len(popups)
Live == {active_popups[i] : i \in 1..Len(active_popups)}

\* `popup in self.active_popups`
InActive(ap, p) == \E i \in 1..Len(ap) : ap[i] = p

\* list.remove(popup): drops the first occurrence
Remove(ap, p) == SelectSeq(ap, LAMBDA q : q # p)

\* ---------------------------------------------------------------- classifier
\* A clipboard content set (QMimeData) as the classifier reads it.
\*   formats    mime_data.formats()
\*   hasUrls    mime_data.hasUrls();  urls  mime_data.urls(), each
\*              [local, exists, isdir, name] for url.isLocalFile(),
\*              os.path.exists, os.path.isdir and os.path.basename
\*   hasImage   mime_data.hasImage(); pixmapNull  clipboard().pixmap().isNull()
\*   hasText    mime_data.hasText();  text  mime_data.text()
NoData == [type |-> "none", top_text |-> "", bottom_text |-> "", paths |-> <<>>]
\* The classifier has not been called.
NotClassified == [type |-> "unset", top_text |-> "", bottom_text |-> "", paths |-> <<>>]

LocalPaths(urls) == SelectSeq(urls, LAMBDA u : u.local /\ u.exists)
RemoteUrls(urls) == SelectSeq(urls, LAMBDA u : ~u.local)

NoiseFormats ==
    {"text/plain", "text/plain;charset=utf-8", "text/uri-list", "UTF8_STRING",
     "COMPOUND_TEXT", "TEXT", "STRING", "image/png"}

\* f.startswith('application/x-qt-'), over the format names the model uses
QtInternalFormats == {"application/x-qt-image", "application/x-qt-windows-mime"}

\* (variant) the application/x-qt-* identifiers are not filtered out
FilteredFormats_keeping_qt(formats) ==
    SelectSeq(formats, LAMBDA f : f \notin NoiseFormats)

FilteredFormats(formats) ==
    SelectSeq(formats, LAMBDA f : f \notin QtInternalFormats /\ f \notin NoiseFormats)

\* process_clipboard_data, `if mime_data.hasUrls():`
urls_descriptor(mime) ==
    IF Len(mime.urls) = 0 THEN NoData
    ELSE IF Len(LocalPaths(mime.urls)) = 0 THEN
        IF Len(RemoteUrls(mime.urls)) > 0
        THEN [type |-> "other", top_text |-> "urls",
              bottom_text |-> RemoteUrls(mime.urls)[1].name, paths |-> <<>>]
        ELSE NoData
    ELSE [type |-> "file", top_text |-> LocalPaths(mime.urls)[1].name,
          bottom_text |-> "", paths |-> LocalPaths(mime.urls)]

\* process_clipboard_data, `if mime_data.hasImage():`
image_descriptor(mime) ==
    IF mime.pixmapNull THEN NoData
    ELSE [type |-> "image", top_text |-> "WxH", bottom_text |-> "size", paths |-> <<>>]

\* process_clipboard_data, `if text:`
text_descriptor(mime) ==
    [type |-> "text", top_text |-> mime.text, bottom_text |-> "size", paths |-> <<>>]

\* (variant) content whose types are all noise is taken for a cleared clipboard
formats_descriptor_noise_as_cleared(formats) ==
    IF Len(FilteredFormats(formats)) > 0 THEN
        [type |-> "other", top_text |-> FilteredFormats(formats)[1],
         bottom_text |-> "size", paths |-> <<>>]
    ELSE [type |-> "clear", top_text |-> "cleared", bottom_text |-> " ", paths |-> <<>>]

\* process_clipboard_data, `if all_formats:` ... `if not all_formats:`
formats_descriptor(formats) ==
    IF Len(formats) > 0 THEN
        \* primary_type is never empty here: all_formats is non-empty
        [type |-> "other",
         top_text |-> IF Len(FilteredFormats(formats)) > 0
                      THEN FilteredFormats(formats)[1] ELSE formats[1],
         bottom_text |-> "size", paths |-> <<>>]
    ELSE [type |-> "clear", top_text |-> "cleared", bottom_text |-> " ", paths |-> <<>>]

\* (variant) text is looked at before the image
process_clipboard_data_text_first(mime) ==
    IF mime.hasUrls THEN urls_descriptor(mime)
    ELSE IF mime.hasText /\ mime.text # "" THEN text_descriptor(mime)
    ELSE IF mime.hasImage THEN image_descriptor(mime)
    ELSE formats_descriptor(mime.formats)

\* ClipboardMonitor.process_clipboard_data: the descriptor, or NoData for None.
\* Texts the claims do not read are kept as short tags.
process_clipboard_data(mime) ==
    IF mime.hasUrls THEN urls_descriptor(mime)
    ELSE IF mime.hasImage THEN image_descriptor(mime)
    ELSE IF mime.hasText /\ mime.text # "" THEN text_descriptor(mime)
    ELSE formats_descriptor(mime.formats)

Mime(formats, hasUrls, urls, hasImage, pixmapNull, hasText, text) ==
    [formats |-> formats, hasUrls |-> hasUrls, urls |-> urls, hasImage |-> hasImage,
     pixmapNull |-> pixmapNull, hasText |-> hasText, text |-> text]

Url(local, exists, isdir, name) ==
    [local |-> local, exists |-> exists, isdir |-> isdir, name |-> name]

\* Content sets an external copy leaves on the clipboard.
ClearedMime == Mime(<<>>, FALSE, <<>>, FALSE, FALSE, FALSE, "")
TextMime == Mime(<<"text/plain">>, FALSE, <<>>, FALSE, FALSE, TRUE, "abc")
FileMime == Mime(<<"text/uri-list">>, TRUE, <<Url(TRUE, TRUE, FALSE, "report.pdf")>>,
                 FALSE, FALSE, FALSE, "")
MissingFileMime == Mime(<<"text/uri-list">>, TRUE, <<Url(TRUE, FALSE, FALSE, "gone.txt")>>,
                        FALSE, FALSE, FALSE, "")
\* The content sets of the runs with in-place copies: text, or nothing classifiable.
MimeSamples == {TextMime, MissingFileMime}
\* A copy of text that reads as HTML source.
MarkupText == "<b>abc</b>"
MarkupMime == Mime(<<"text/plain">>, FALSE, <<>>, FALSE, FALSE, TRUE, MarkupText)
\* The copies of a run in which pinned popups are edited.
EditMimeSamples == {TextMime, MarkupMime}
\* The content sets of the runs with files and clearings.
FileSamples == {ClearedMime, FileMime}

\* Every content set the classifier is tried on: the type identifiers in any
\* order, and what QMimeData answers for them.  hasUrls, hasImage and hasText
\* follow from the identifiers (text/uri-list, application/x-qt-image,
\* text/plain or text/uri-list); the URLs, the pixmap and the text do not.
FormatNames ==
    {"text/plain", "text/uri-list", "application/x-qt-image",
     "application/x-qt-windows-mime", "application/x-color"}

FormatLists ==
    {fs \in UNION {[1..n -> FormatNames] : n \in 0..MaxFormats} :
        \A i, j \in 1..Len(fs) : i # j => fs[i] # fs[j]}

UrlListSamples ==
    {<<>>,
     <<Url(FALSE, FALSE, FALSE, "http://host/a")>>,
     <<Url(TRUE, FALSE, FALSE, "gone.txt")>>,
     <<Url(TRUE, FALSE, FALSE, "gone.txt"), Url(TRUE, TRUE, FALSE, "report.pdf")>>}

Has(formats, f) == \E i \in 1..Len(formats) : formats[i] = f

ContentSets ==
    {m \in {Mime(fs, Has(fs, "text/uri-list"), urls, Has(fs, "application/x-qt-image"), null,
                 Has(fs, "text/plain") \/ Has(fs, "text/uri-list"), text) :
               fs \in FormatLists, urls \in UrlListSamples,
               null \in BOOLEAN, text \in {"", "abc"}} :
        /\ m.urls # <<>> => m.hasUrls
        /\ m.pixmapNull => m.hasImage
        /\ m.text # "" => m.hasText}

\* Content sets the classifier returns None for, next to MissingFileMime: a URL
\* list that yields no URL, and an image whose pixmap is null.
EmptyUrlsMime == Mime(<<"text/uri-list">>, TRUE, <<>>, FALSE, FALSE, FALSE, "")
NullImageMime == Mime(<<"application/x-qt-image">>, FALSE, <<>>, TRUE, TRUE, FALSE, "")
\* The content sets of the runs that follow the clipboard's content.
SignalSamples == {TextMime, MissingFileMime, EmptyUrlsMime, NullImageMime}

\* What an in-place copy of a selection writes to the clipboard.
SelectionMime == TextMime

\* ---------------------------------------------------------------- cooldown gate
NoTimers == [t \in 0..COOLDOWN_TIME_MS |-> 0]

PendingTimers(ct) == LET Sum[t \in -1..COOLDOWN_TIME_MS] ==
                             IF t = -1 THEN 0 ELSE Sum[t - 1] + ct[t]
                     IN Sum[COOLDOWN_TIME_MS]

\* ClipboardMonitor.set_cooldown, the timer part: one more single-shot timer of
\* COOLDOWN_TIME_MS; the timers already pending are left running.
set_cooldown(ct) == [ct EXCEPT ![COOLDOWN_TIME_MS] = @ + 1]

\* ---------------------------------------------------------------- notification
\* TransparentPopup.start_lifecycle: a new single-shot timer, started with the
\* remembered remaining time unless the popup is sticky.  What it stores in
\* lifecycle_start_time is `lifecycle_start_time` below.
start_lifecycle(pp) ==
    IF ~pp.is_sticky
    THEN [pp EXCEPT !.lifecycle_timer = pp.lifecycle_remaining]
    ELSE [pp EXCEPT !.lifecycle_timer = Inactive]

\* self.lifecycle_start_time of a popup whose countdown runs: the time of day
\* (QTime.currentTime()) at which start_lifecycle started the timer.  The timer
\* was started with lifecycle_remaining and counts real time, so that moment
\* lies lifecycle_remaining - lifecycle_timer before now.  The code reads the
\* field only while the timer is active; the stale value a stopped timer
\* leaves behind is not modelled.
lifecycle_start_time(pp) ==
    (now - (pp.lifecycle_remaining - pp.lifecycle_timer)) % MSECS_PER_DAY

\* QTime.msecsTo: both are times of day, so the result is negative when
\* midnight lies between them.
msecsTo(from, to) == to - from

\* Qt.mightBeRichText on the texts of the model: a text whose first line opens
\* with a known HTML tag is taken for rich text.
mightBeRichText(text) == text = MarkupText

\* QTextEdit.setText followed by what the widget then holds (toPlainText):
\* the format is guessed, a rich text is parsed as HTML and its tags are not
\* part of the content; a plain text is taken as it is.
setText(text) == IF mightBeRichText(text) THEN "abc" ELSE text

\* TransparentPopup.__init__: setup_ui (top_content.setText of the descriptor's
\* top text), show, slide_in(), start_lifecycle().
TransparentPopup(data, color_mode) ==
    start_lifecycle(
        [original_data |-> data, color_mode |-> color_mode,
         top_content |-> setText(data.top_text),
         is_sticky |-> FALSE, is_sliding_out |-> FALSE,
         lifecycle_remaining |-> LIFECYCLE_SECONDS,
         lifecycle_timer |-> Inactive,
         slide_anim |-> SLIDE_IN_DURATION, anim_group |-> Inactive,
         bottom_text |-> data.bottom_text])

\* (variant) the early return for a popup already sliding out is missing
slide_out_restarting(pp) ==
    [pp EXCEPT !.lifecycle_timer = Inactive, !.is_sliding_out = TRUE,
               !.slide_anim = Inactive, !.anim_group = SLIDE_OUT_DURATION]

\* TransparentPopup.slide_out: stop the timers; if not yet exiting, mark the
\* popup exiting, stop a running entry animation and start the exit animation.
slide_out(pp) ==
    IF pp.is_sliding_out
    THEN [pp EXCEPT !.lifecycle_timer = Inactive]
    ELSE [pp EXCEPT !.lifecycle_timer = Inactive, !.is_sliding_out = TRUE,
                    !.slide_anim = Inactive, !.anim_group = SLIDE_OUT_DURATION]

\* TransparentPopup.activate_sticky_mode: pause a running countdown and remember
\* what is left of it; top_content becomes editable and keeps its content.
activate_sticky_mode(pp) ==
    IF pp.lifecycle_timer # Inactive
    THEN [pp EXCEPT !.lifecycle_timer = Inactive,
                    !.lifecycle_remaining =
                        Max(0, pp.lifecycle_remaining - msecsTo(lifecycle_start_time(pp), now))]
    ELSE pp

\* TransparentPopup.deactivate_sticky_mode: restart the countdown when time is
\* left, then top_content.setText of the descriptor's top text.
deactivate_sticky_mode(pp) ==
    [(IF pp.lifecycle_remaining > 0 THEN start_lifecycle(pp) ELSE pp)
        EXCEPT !.top_content = setText(pp.original_data.top_text)]

\* TransparentPopup.toggle_sticky_mode
toggle_sticky_mode(pp) ==
    IF ~pp.is_sticky
    THEN activate_sticky_mode([pp EXCEPT !.is_sticky = TRUE])
    ELSE deactivate_sticky_mode([pp EXCEPT !.is_sticky = FALSE])

\* (variant) the click dismisses a sticky popup too
mousePressEvent_ignoring_sticky(pp) == slide_out(pp)

\* TransparentPopup.mousePressEvent, left button
mousePressEvent(pp) == IF ~pp.is_sticky THEN slide_out(pp) ELSE pp

\* TransparentPopup.update_bottom_text
update_bottom_text(pp, text) == [pp EXCEPT !.bottom_text = text]

\* ---------------------------------------------------------------- supervisor
\* show_popup's scan: the newest popup of the live set that is not sliding out,
\* or NoPopup.
stationary_popup(ap, ps) ==
    LET idx == {i \in 1..Len(ap) : ~ps[ap[i]].is_sliding_out}
    IN IF idx = {} THEN NoPopup
       ELSE ap[CHOOSE i \in idx : \A j \in idx : j <= i]

\* (variant) the scanned popup is not told to slide out
evict_nothing(ap, ps) == ps

\* show_popup, the eviction: the scanned popup begins exit unless it is sticky.
evict(ap, ps) ==
    LET v == stationary_popup(ap, ps)
    IN IF v # NoPopup /\ ~ps[v].is_sticky
       THEN [ps EXCEPT ![v] = slide_out(ps[v])]
       ELSE ps

\* (variant) the new popup replaces the live set
show_popup_replacing(ap, new_id) == <<new_id>>

\* show_popup, the live set: `self.active_popups.append(new_popup)`
show_popup_append(ap, new_id) == Append(ap, new_id)

\* close_popup: remove from the live set when present, stop the animations and
\* the timers.
close_popup_list(ap, p) == IF InActive(ap, p) THEN Remove(ap, p) ELSE ap

close_popup_state(pp) ==
    [pp EXCEPT !.slide_anim = Inactive, !.anim_group = Inactive,
               !.lifecycle_timer = Inactive,
               \* popup.close(): no handler reads the closed widget's lifecycle
               \* fields again, and the model stops following them
               !.is_sticky = FALSE, !.lifecycle_remaining = 0]

\* (variant) the new popup keeps the descriptor's bottom text
with_provisional_marker_skipped(new_popup, is_file) == new_popup

\* on_clipboard_changed, for a file descriptor: the busy marker is written to
\* the new popup before calculate_total_size_async is called.
with_provisional_marker(new_popup, is_file) ==
    IF is_file THEN update_bottom_text(new_popup, "busy") ELSE new_popup

\* (variant) only the oldest popup of the live set is looked at
is_any_popup_sticky_oldest_only(ap, ps) == Len(ap) > 0 /\ ps[ap[1]].is_sticky

\* `any(p.is_sticky for p in self.active_popups)`
is_any_popup_sticky(ap, ps) == \E i \in 1..Len(ap) : ps[ap[i]].is_sticky

\* (variant) the sound is played for a Cleared descriptor too
sounds_for_every_change(data) == 1

\* The sounds on_clipboard_changed plays for a descriptor.
sounds_for(data) == IF data.type # "clear" THEN 1 ELSE 0

\* (variant) the early return for a sticky popup is missing
suppressed_never(ap, ps) == FALSE

\* Whether on_clipboard_changed returns before show_popup.
suppressed_by_sticky(ap, ps) == is_any_popup_sticky(ap, ps)

\* ---------------------------------------------------------------- size aggregation
\* The files the path lists of the samples name, by node 1..Len(FileSystem).
\*   kind    "file", "dir", "link" (a symbolic link) or "none" (nothing there
\*           any more: the path was removed after the classifier saw it)
\*   size    st_size
\*   ok      stat of the node succeeds (no OSError, no PermissionError)
\*   scan    os.scandir of the node succeeds (directories)
\*   parent  the directory the node is an entry of, 0 for none of the sample
Node(kind, size, ok, scan, parent) ==
    [kind |-> kind, size |-> size, ok |-> ok, scan |-> scan, parent |-> parent]

FileSystem ==
    << Node("file", 3, TRUE, FALSE, 0),      \* 1  report.pdf
       Node("dir", 0, TRUE, TRUE, 0),        \* 2  folder/
       Node("file", 5, TRUE, FALSE, 2),      \* 3  folder/a
       Node("file", 7, FALSE, FALSE, 2),     \* 4  folder/b, stat fails
       Node("dir", 0, TRUE, FALSE, 2),       \* 5  folder/locked/, scandir fails
       Node("file", 11, TRUE, FALSE, 5),     \* 6  folder/locked/c
       Node("link", 13, TRUE, FALSE, 2),     \* 7  folder/l, a symbolic link
       Node("dir", 0, TRUE, TRUE, 2),        \* 8  folder/sub/
       Node("file", 1024, TRUE, FALSE, 8),   \* 9  folder/sub/d
       Node("none", 0, FALSE, FALSE, 0) >>   \* 10 removed meanwhile

Nodes == 1..Len(FileSystem)

\* _get_path_size.  os.path.isfile and os.path.isdir answer False when stat
\* fails; inside a directory an entry whose is_file, stat or is_dir raises is
\* skipped, a link is neither file nor directory (follow_symlinks=False), and
\* a scandir that raises leaves the total at 0.  The listed paths of the
\* samples are not symbolic links themselves.
\* (variant) the walk does not descend into the directories it finds
_get_path_size_one_level(path) ==
    LET n == FileSystem[path]
        entry(e) == IF FileSystem[e].ok /\ FileSystem[e].kind = "file"
                    THEN FileSystem[e].size ELSE 0
        total_size[k \in 0..Len(FileSystem)] ==
            IF k = 0 THEN 0
            ELSE total_size[k - 1] + (IF FileSystem[k].parent = path THEN entry(k) ELSE 0)
    IN IF n.kind = "file" /\ n.ok THEN n.size
       ELSE IF n.kind = "dir" /\ n.ok /\ n.scan THEN total_size[Len(FileSystem)]
       ELSE 0

RECURSIVE _get_path_size(_)
_get_path_size(path) ==
    LET n == FileSystem[path]
        entry(e) == IF ~FileSystem[e].ok THEN 0
                    ELSE IF FileSystem[e].kind = "file" THEN FileSystem[e].size
                    ELSE IF FileSystem[e].kind = "dir" THEN _get_path_size(e)
                    ELSE 0
        total_size[k \in 0..Len(FileSystem)] ==
            IF k = 0 THEN 0
            ELSE total_size[k - 1] + (IF FileSystem[k].parent = path THEN entry(k) ELSE 0)
    IN IF n.kind = "file" /\ n.ok THEN n.size
       ELSE IF n.kind = "dir" /\ n.ok THEN
           IF n.scan THEN total_size[Len(FileSystem)] ELSE 0
       ELSE 0

\* (variant) the fraction is cut off instead of rounded
RoundHalfEven_truncating(q, r, half) == q

\* ClipboardMonitor.format_size for an integer byte count: the unit and the
\* number shown, in tenths for Mb and Gb (one decimal).  round() and the .1f
\* format round an exact half to the even neighbour.
RoundHalfEven(q, r, half) ==
    IF r < half THEN q
    ELSE IF r > half THEN q + 1
    ELSE IF q % 2 = 0 THEN q ELSE q + 1

format_size(size_bytes) ==
    IF size_bytes < 1024 THEN [unit |-> "b", shown |-> size_bytes]
    ELSE IF size_bytes < 1024 * 1024 THEN
        [unit |-> "K", shown |-> RoundHalfEven(size_bytes \div 1024, size_bytes % 1024, 512)]
    ELSE IF size_bytes < 1024 * 1024 * 1024 THEN
        \* tenths of a Mb: 10 * size_bytes / 2^20, without leaving 32 bits
        LET whole == size_bytes \div (1024 * 1024)
            rest == 10 * (size_bytes % (1024 * 1024))
        IN [unit |-> "Mb",
            shown |-> 10 * whole + RoundHalfEven(rest \div (1024 * 1024),
                                                 rest % (1024 * 1024), 512 * 1024)]
    ELSE
        \* tenths of a Gb: 10 * size_bytes / 2^30, as x * 1024 + low
        LET whole == size_bytes \div (1024 * 1024 * 1024)
            rest == size_bytes % (1024 * 1024 * 1024)
            x == 10 * (rest \div 1024) + ((10 * (rest % 1024)) \div 1024)
            low == (10 * (rest % 1024)) % 1024
            q == x \div (1024 * 1024)
            r == x % (1024 * 1024)
        IN [unit |-> "Gb",
            shown |-> 10 * whole + (IF r = 512 * 1024 /\ low > 0 THEN q + 1
                                    ELSE RoundHalfEven(q, r, 512 * 1024))]

\* A Future of the executor.
\*   fn     "_get_path_size" for a per-path task, "aggregate" for the join task
\*          (aggregate_and_emit_result_on_main_thread)
\*   calc   the call of calculate_total_size_async that submitted it
\*   path   the per-path task's argument
\*   waits  futures_list of the join task: the futures it reads
Future(fn, calc, path, waits) ==
    [fn |-> fn, calc |-> calc, path |-> path, waits |-> waits,
     state |-> "PENDING", exception |-> FALSE, result |-> 0]

\* The calls of calculate_total_size_async so far.
Calcs == {futures[f].calc : f \in 1..Len(futures)}

\* The path lists of the calls: what a copy of files hands to the aggregation.
PathListSamples == {<<1>>, <<2, 10>>, <<4, 5, 1>>}
\* the length of the longest of them
MaxPathList ==
    CHOOSE n \in {Len(l) : l \in PathListSamples} : \A l \in PathListSamples : Len(l) <= n

\* (variant) only the join task is put in the queue
submit_join_only(base, n) == <<base + n + 1>>

\* calculate_total_size_async, the order of its executor.submit calls: the
\* per-path tasks first, the join task last.
submit(base, n) == [i \in 1..(n + 1) |-> base + i]

\* aggregate_and_emit_result_on_main_thread, the sum:
\* sum(future.result() for future in futures_list if future.exception() is None)
aggregate(futures_list, fs) ==
    LET total[k \in 0..Len(futures_list)] ==
            IF k = 0 THEN 0
            ELSE total[k - 1] + (IF ~fs[futures_list[k]].exception
                                 THEN fs[futures_list[k]].result ELSE 0)
    IN total[Len(futures_list)]

\* ---------------------------------------------------------------- state
Observed(op, p, accepted, type, sounds) ==
    [op |-> op, popup |-> p, accepted |-> accepted, type |-> type, sounds |-> sounds]

\* Handlers that neither play a sound nor look at the clipboard.
Unobserved == Observed("other", NoPopup, FALSE, "none", 0)

\* ClipboardMonitor.__init__: no popup, the gate open, the executor created.
MonitorInit ==
    /\ is_on_cooldown = FALSE
    /\ cooldown_timers = NoTimers
    /\ active_popups = <<>>
    /\ current_color_mode = 0
    /\ popups = <<>>
    /\ calc_pending = {}
    /\ echo_pending = 0
    /\ last = Unobserved
    /\ accept_age = COOLDOWN_TIME_MS
    /\ work_queue = <<>>
    /\ futures = <<>>
    /\ threads = {}
    /\ emitted = <<>>

\* format_size has not been called.
NotFormatted == [unit |-> "unset", shown |-> 0]
FormatIdle == size_input = 0 /\ size_text = NotFormatted

Init ==
    /\ now \in 0..(MSECS_PER_DAY - 1)
    /\ MonitorInit
    /\ clipboard = ClearedMime
    /\ descriptor = NotClassified
    /\ FormatIdle

\* ---------------------------------------------------------------- handlers
\* (variant) the cooldown is requested before the descriptor is looked at
no_descriptor_cooling ==
    /\ is_on_cooldown' = TRUE
    /\ cooldown_timers' = set_cooldown(cooldown_timers)
    /\ last' = Unobserved
    /\ UNCHANGED <<now, active_popups, current_color_mode, popups, calc_pending, accept_age>>

\* on_clipboard_changed, `if not data: return`
no_descriptor ==
    /\ last' = Unobserved
    /\ UNCHANGED <<now, is_on_cooldown, cooldown_timers, active_popups,
                   current_color_mode, popups, calc_pending, accept_age>>

\* ClipboardMonitor.on_clipboard_changed for the content set `mime`.
on_clipboard_changed(mime) ==
    LET data == process_clipboard_data(mime)
        new_id == Len(popups) + 1
        new_popup == TransparentPopup(data, current_color_mode)
        is_file == data.type = "file" /\ Len(data.paths) > 0
    IN
    IF is_on_cooldown THEN
        /\ last' = Unobserved
        /\ UNCHANGED <<now, is_on_cooldown, cooldown_timers, active_popups,
                       current_color_mode, popups, calc_pending, accept_age>>
    ELSE IF data = NoData THEN
        no_descriptor
    ELSE IF suppressed_by_sticky(active_popups, popups) THEN
        /\ PendingTimers(cooldown_timers) < MaxTimers
        /\ is_on_cooldown' = TRUE
        /\ cooldown_timers' = set_cooldown(cooldown_timers)
        /\ last' = Observed("on_clipboard_changed", NoPopup, TRUE, data.type, sounds_for(data))
        /\ accept_age' = 0
        /\ UNCHANGED <<now, active_popups, current_color_mode, popups, calc_pending>>
    ELSE
        /\ PendingTimers(cooldown_timers) < MaxTimers
        /\ Len(popups) < MaxPopups
        \* show_popup
        /\ popups' = Append(evict(active_popups, popups),
                            with_provisional_marker(new_popup, is_file))
        /\ current_color_mode' = 1 - current_color_mode
        /\ active_popups' = show_popup_append(active_popups, new_id)
        /\ is_on_cooldown' = TRUE
        /\ cooldown_timers' = set_cooldown(cooldown_timers)
        \* calculate_total_size_async
        /\ calc_pending' = IF is_file THEN calc_pending \cup {new_id} ELSE calc_pending
        /\ last' = Observed("on_clipboard_changed", new_id, TRUE, data.type, sounds_for(data))
        /\ accept_age' = 0
        /\ UNCHANGED now

\* The dataChanged signal of an external copy.
ClipboardChanged ==
    /\ UNCHANGED <<pool_vars, classifier_vars, format_vars>>
    /\ \E mime \in MimeSamples : on_clipboard_changed(mime)
    /\ UNCHANGED echo_pending

\* The dataChanged signal echoed by the monitor's own clipboard write.
EchoChanged ==
    /\ UNCHANGED <<pool_vars, classifier_vars, format_vars>>
    /\ echo_pending > 0
    /\ echo_pending' = echo_pending - 1
    /\ on_clipboard_changed(SelectionMime)

\* The lambda of set_cooldown's QTimer.singleShot: a due timer reopens the gate.
CooldownTimeout ==
    /\ UNCHANGED <<pool_vars, classifier_vars, format_vars>>
    /\ cooldown_timers[0] > 0
    /\ cooldown_timers' = [cooldown_timers EXCEPT ![0] = @ - 1]
    /\ is_on_cooldown' = FALSE
    /\ last' = Unobserved
    /\ UNCHANGED <<now, active_popups, current_color_mode, popups, calc_pending,
                   echo_pending, accept_age>>

\* lifecycle_timer.timeout -> slide_out
LifecycleTimeout(p) ==
    /\ UNCHANGED <<pool_vars, classifier_vars, format_vars>>
    /\ popups[p].lifecycle_timer = 0
    /\ popups' = [popups EXCEPT ![p] = slide_out(@)]
    /\ last' = Unobserved
    /\ UNCHANGED <<now, is_on_cooldown, cooldown_timers, active_popups,
                   current_color_mode, calc_pending, echo_pending, accept_age>>

\* A left click on the body of a shown popup: TransparentPopup.mousePressEvent.
DismissClick(p) ==
    /\ UNCHANGED <<pool_vars, classifier_vars, format_vars>>
    /\ p \in Live
    /\ popups' = [popups EXCEPT ![p] = mousePressEvent(@)]
    /\ last' = Unobserved
    /\ UNCHANGED <<now, is_on_cooldown, cooldown_timers, active_popups,
                   current_color_mode, calc_pending, echo_pending, accept_age>>

\* A left click on the bottom label of a shown popup: TransparentPopup.eventFilter.
eventFilter(p) ==
    /\ UNCHANGED <<pool_vars, classifier_vars, format_vars>>
    /\ p \in Live
    /\ toggle_sticky_mode(popups[p]).lifecycle_remaining <= MaxRemaining
    /\ popups' = [popups EXCEPT ![p] = toggle_sticky_mode(@)]
    /\ last' = Unobserved
    /\ UNCHANGED <<now, is_on_cooldown, cooldown_timers, active_popups,
                   current_color_mode, calc_pending, echo_pending, accept_age>>

\* StickyTextEdit.keyPressEvent for Copy with a selection in a sticky popup:
\* the sound, set_cooldown, then the clipboard write, whose signal comes back.
keyPressEvent(p) ==
    /\ UNCHANGED <<pool_vars, classifier_vars, format_vars>>
    /\ p \in Live
    /\ popups[p].is_sticky
    /\ PendingTimers(cooldown_timers) < MaxTimers
    /\ echo_pending < MaxEcho
    /\ is_on_cooldown' = TRUE
    /\ cooldown_timers' = set_cooldown(cooldown_timers)
    /\ echo_pending' = echo_pending + 1
    /\ last' = Observed("keyPressEvent", NoPopup, FALSE, "none", 1)
    /\ UNCHANGED <<now, active_popups, current_color_mode, popups, calc_pending, accept_age>>

\* The entry animation (slide_anim) runs to its end.
SlideInFinished(p) ==
    /\ UNCHANGED <<pool_vars, classifier_vars, format_vars>>
    /\ popups[p].slide_anim = 0
    /\ popups' = [popups EXCEPT ![p].slide_anim = Inactive]
    /\ last' = Unobserved
    /\ UNCHANGED <<now, is_on_cooldown, cooldown_timers, active_popups,
                   current_color_mode, calc_pending, echo_pending, accept_age>>

\* anim_group.finished -> ClipboardMonitor.close_popup
close_popup(p) ==
    /\ UNCHANGED <<pool_vars, classifier_vars, format_vars>>
    /\ popups[p].anim_group = 0
    /\ active_popups' = close_popup_list(active_popups, p)
    /\ popups' = [popups EXCEPT ![p] = close_popup_state(@)]
    /\ last' = Unobserved
    /\ UNCHANGED <<now, is_on_cooldown, cooldown_timers, current_color_mode,
                   calc_pending, echo_pending, accept_age>>

\* (variant) the result is written without looking at the live set
on_calculation_finished_unchecked(p) ==
    /\ UNCHANGED <<pool_vars, classifier_vars, format_vars>>
    /\ p \in calc_pending
    /\ calc_pending' = calc_pending \ {p}
    /\ popups' = [popups EXCEPT ![p].bottom_text = "final"]
    /\ last' = Unobserved
    /\ UNCHANGED <<now, is_on_cooldown, cooldown_timers, active_popups,
                   current_color_mode, echo_pending, accept_age>>

\* calculation_done -> ClipboardMonitor.on_calculation_finished
on_calculation_finished(p) ==
    /\ UNCHANGED <<pool_vars, classifier_vars, format_vars>>
    /\ p \in calc_pending
    /\ calc_pending' = calc_pending \ {p}
    /\ popups' = IF InActive(active_popups, p)
                 THEN [popups EXCEPT ![p] = update_bottom_text(@, "final")]
                 ELSE popups
    /\ last' = Unobserved
    /\ UNCHANGED <<now, is_on_cooldown, cooldown_timers, active_popups,
                   current_color_mode, echo_pending, accept_age>>

\* Time passes: possible once everything due at this instant has run.
Tick ==
    /\ UNCHANGED <<pool_vars, classifier_vars, format_vars>>
    /\ cooldown_timers[0] = 0
    /\ echo_pending = 0
    /\ \A p \in Ids : /\ popups[p].lifecycle_timer # 0
                      /\ popups[p].slide_anim # 0
                      /\ popups[p].anim_group # 0
    /\ now' = (now + 1) % MSECS_PER_DAY
    /\ cooldown_timers' = [t \in 0..COOLDOWN_TIME_MS |->
                              IF t < COOLDOWN_TIME_MS THEN cooldown_timers[t + 1] ELSE 0]
    /\ popups' = [p \in Ids |->
                    LET pp == popups[p]
                        Dec(x) == IF x = Inactive THEN Inactive ELSE x - 1
                    IN [pp EXCEPT !.lifecycle_timer = Dec(@),
                                  !.slide_anim = Dec(@),
                                  !.anim_group = Dec(@)]]
    /\ accept_age' = Min(accept_age + 1, COOLDOWN_TIME_MS)
    /\ last' = Unobserved
    /\ UNCHANGED <<is_on_cooldown, active_popups, current_color_mode, calc_pending,
                   echo_pending>>

\* The events of a run with text copies and in-place copies: no size
\* aggregation is started.
Next ==
    \/ ClipboardChanged
    \/ EchoChanged
    \/ CooldownTimeout
    \/ Tick
    \/ \E p \in Ids :
        \/ LifecycleTimeout(p)
        \/ DismissClick(p)
        \/ eventFilter(p)
        \/ keyPressEvent(p)
        \/ SlideInFinished(p)
        \/ close_popup(p)

Spec == Init /\ [][Next]_vars

\* The dataChanged signal of an external copy of files (or a clearing).
ClipboardChangedFiles ==
    /\ UNCHANGED <<pool_vars, classifier_vars, format_vars>>
    /\ \E mime \in FileSamples : on_clipboard_changed(mime)
    /\ UNCHANGED echo_pending

\* The events of a run with file copies and clearings, without in-place copies.
NextFiles ==
    \/ ClipboardChangedFiles
    \/ CooldownTimeout
    \/ Tick
    \/ \E p \in Ids :
        \/ LifecycleTimeout(p)
        \/ DismissClick(p)
        \/ eventFilter(p)
        \/ SlideInFinished(p)
        \/ close_popup(p)
        \/ on_calculation_finished(p)

SpecFiles == Init /\ [][NextFiles]_vars

\* The dataChanged signal of an external copy of text.
ClipboardChangedText ==
    /\ UNCHANGED <<pool_vars, classifier_vars, format_vars>>
    /\ \E mime \in EditMimeSamples : on_clipboard_changed(mime)
    /\ UNCHANGED echo_pending

\* What the user leaves in the editable top_content: everything deleted, or
\* something typed or pasted (StickyTextEdit.insertFromMimeData inserts the
\* clipboard's plain text).
EditedTexts == {"", "abcx"}

\* A key press or a paste in the top_content of a sticky popup, which is not
\* read-only: StickyTextEdit.keyPressEvent hands it to QTextEdit.
TextEdited(p) ==
    /\ UNCHANGED <<pool_vars, classifier_vars, format_vars>>
    /\ p \in Live
    /\ popups[p].is_sticky
    /\ \E text \in EditedTexts :
          /\ text # popups[p].top_content
          /\ popups' = [popups EXCEPT ![p].top_content = text]
    /\ last' = Unobserved
    /\ UNCHANGED <<now, is_on_cooldown, cooldown_timers, active_popups,
                   current_color_mode, calc_pending, echo_pending, accept_age>>

\* The events of a run with text copies and edits of pinned popups.
InitEdit ==
    /\ now = 0
    /\ MonitorInit
    /\ clipboard = ClearedMime
    /\ descriptor = NotClassified
    /\ FormatIdle

NextEdit ==
    \/ ClipboardChangedText
    \/ CooldownTimeout
    \/ Tick
    \/ \E p \in Ids :
        \/ LifecycleTimeout(p)
        \/ DismissClick(p)
        \/ eventFilter(p)
        \/ TextEdited(p)
        \/ SlideInFinished(p)
        \/ close_popup(p)

SpecEdit == InitEdit /\ [][NextEdit]_vars

\* An external copy puts `mime` on the clipboard and its dataChanged signal is
\* delivered.
ClipboardChangedTo(mime) ==
    /\ clipboard' = mime
    /\ on_clipboard_changed(mime)
    /\ UNCHANGED <<echo_pending, descriptor, pool_vars, format_vars>>

\* The events of a run without clicks, following what is on the clipboard.
NextSignals ==
    \/ \E mime \in SignalSamples : ClipboardChangedTo(mime)
    \/ CooldownTimeout
    \/ Tick
    \/ \E p \in Ids :
        \/ LifecycleTimeout(p)
        \/ SlideInFinished(p)
        \/ close_popup(p)

SpecSignals == Init /\ [][NextSignals]_vars

\* ---------------------------------------------------------------- worker pool
\* calculate_total_size_async(file_paths, ...): one Future per path and one for
\* the join task, put in the executor's queue in the order of the submit calls.
calculate_total_size_async(file_paths) ==
    LET n == Len(file_paths)
        base == Len(futures)
        calc == Cardinality(Calcs) + 1
    IN /\ Cardinality(Calcs) < MaxCalcs
       /\ futures' = futures
                     \o [i \in 1..n |-> Future("_get_path_size", calc, file_paths[i], <<>>)]
                     \o << Future("aggregate", calc, 0, [i \in 1..n |-> base + i]) >>
       /\ work_queue' = work_queue \o submit(base, n)
       /\ UNCHANGED <<threads, emitted>>
       /\ UNCHANGED <<monitor_vars, classifier_vars, format_vars>>

\* A worker thread of the executor that has nothing to run takes the oldest
\* work item of the queue.
WorkerTakes ==
    /\ Cardinality(threads) < MaxWorkers
    /\ work_queue # <<>>
    /\ threads' = threads \cup {Head(work_queue)}
    /\ work_queue' = Tail(work_queue)
    /\ futures' = [futures EXCEPT ![Head(work_queue)].state = "RUNNING"]
    /\ UNCHANGED emitted
    /\ UNCHANGED <<monitor_vars, classifier_vars, format_vars>>

\* (variant) the per-path task emits calculation_done for its own size
PathTaskReturns_emitting(f) ==
    /\ f \in threads
    /\ futures[f].fn = "_get_path_size"
    /\ futures' = [futures EXCEPT ![f].state = "FINISHED",
                                  ![f].result = _get_path_size(futures[f].path)]
    /\ threads' = threads \ {f}
    /\ emitted' = Append(emitted, [calc |-> futures[f].calc,
                                   total_size |-> _get_path_size(futures[f].path),
                                   final_text |-> format_size(_get_path_size(futures[f].path))])
    /\ UNCHANGED work_queue
    /\ UNCHANGED <<monitor_vars, classifier_vars, format_vars>>

\* A per-path task ends: _get_path_size returns, or an exception it does not
\* catch leaves the Future failed.
PathTaskReturns(f) ==
    /\ f \in threads
    /\ futures[f].fn = "_get_path_size"
    /\ \E raised \in BOOLEAN :
          futures' = [futures EXCEPT
                         ![f].state = "FINISHED",
                         ![f].exception = raised,
                         ![f].result = IF raised THEN 0 ELSE _get_path_size(futures[f].path)]
    /\ threads' = threads \ {f}
    /\ UNCHANGED <<work_queue, emitted>>
    /\ UNCHANGED <<monitor_vars, classifier_vars, format_vars>>

\* aggregate_and_emit_result_on_main_thread: future.exception() blocks until
\* the future is done, so the join task ends once every future of its list
\* is; it emits calculation_done with the formatted sum.
aggregate_and_emit_result_on_main_thread(f) ==
    /\ f \in threads
    /\ futures[f].fn = "aggregate"
    /\ \A k \in 1..Len(futures[f].waits) : futures[futures[f].waits[k]].state = "FINISHED"
    /\ emitted' = Append(emitted,
                         [calc |-> futures[f].calc,
                          total_size |-> aggregate(futures[f].waits, futures),
                          final_text |-> format_size(aggregate(futures[f].waits, futures))])
    /\ futures' = [futures EXCEPT ![f].state = "FINISHED"]
    /\ threads' = threads \ {f}
    /\ UNCHANGED work_queue
    /\ UNCHANGED <<monitor_vars, classifier_vars, format_vars>>

\* The size aggregation by itself: calls with the sample path lists and the
\* worker threads, in every interleaving.
InitPool ==
    /\ now = 0
    /\ MonitorInit
    /\ clipboard = ClearedMime
    /\ descriptor = NotClassified
    /\ FormatIdle

NextPool ==
    \/ \E file_paths \in PathListSamples : calculate_total_size_async(file_paths)
    \/ WorkerTakes
    \/ \E f \in 1..Len(futures) :
        \/ PathTaskReturns(f)
        \/ aggregate_and_emit_result_on_main_thread(f)

SpecPool == InitPool /\ [][NextPool]_vars

\* Each per-path task terminates and the worker threads are scheduled.
FairPool ==
    /\ WF_vars(WorkerTakes)
    /\ \A f \in 1..(MaxCalcs * (MaxPathList + 1)) :
          /\ WF_vars(f <= Len(futures) /\ PathTaskReturns(f))
          /\ WF_vars(f <= Len(futures) /\ aggregate_and_emit_result_on_main_thread(f))

SpecPoolFair == SpecPool /\ FairPool

\* ---------------------------------------------------------------- classifier alone
\* process_clipboard_data is called once on the content set of the clipboard.
Classify ==
    /\ descriptor = NotClassified
    /\ descriptor' = process_clipboard_data(clipboard)
    /\ UNCHANGED <<clipboard, monitor_vars, pool_vars, format_vars>>

InitClassify ==
    /\ now = 0
    /\ MonitorInit
    /\ clipboard \in ContentSets
    /\ descriptor = NotClassified
    /\ FormatIdle

NextClassify == Classify

SpecClassify == InitClassify /\ [][NextClassify]_vars

\* ---------------------------------------------------------------- size formatter alone
\* The byte counts format_size is called on: those within SizeWindow of each
\* unit threshold, the exact halves of the first K values and the values
\* around the first steps of a tenth of a Mb.
SizeThresholds == {0, 1024, 1024 * 1024, 1024 * 1024 * 1024}
SizeSamples ==
    {n \in UNION {{t + d : d \in (-SizeWindow)..SizeWindow} : t \in SizeThresholds}
             \cup {k * 1024 + 512 + d : k \in 1..SizeWindow, d \in -1..1}
             \cup {1024 * 1024 + ((k * 1024 * 1024) \div 20) + d : k \in 1..SizeWindow, d \in -1..1} :
        n >= 0}

\* format_size is called once on the byte count.
FormatSize ==
    /\ size_text = NotFormatted
    /\ size_text' = format_size(size_input)
    /\ UNCHANGED <<size_input, monitor_vars, pool_vars, classifier_vars>>

InitFormat ==
    /\ now = 0
    /\ MonitorInit
    /\ clipboard = ClearedMime
    /\ descriptor = NotClassified
    /\ size_input \in SizeSamples
    /\ size_text = NotFormatted

NextFormat == FormatSize

SpecFormat == InitFormat /\ [][NextFormat]_vars

\* ---------------------------------------------------------------- claims
\* Steps are told apart by what they change: an accepted change is the only
\* step that leaves last.accepted set.
Accepted == last.op = "on_clipboard_changed" /\ last.accepted
Sticky(p) == popups[p].is_sticky
Exiting(p) == popups[p].is_sliding_out
BeginsExit(p) == ~popups[p].is_sliding_out /\ popups'[p].is_sliding_out
Removed(p) == p \in Live /\ p \notin Live'
\* Real time the running countdown of p has run since it was (re)started: the
\* single-shot timer was started with lifecycle_remaining.
Elapsed(p) == popups[p].lifecycle_remaining - popups[p].lifecycle_timer
PinStep(p) == p \in Live' /\ ~popups[p].is_sticky /\ popups'[p].is_sticky
UnpinStep(p) == p \in Live' /\ popups[p].is_sticky /\ ~popups'[p].is_sticky

\* C1: once a change has been accepted, no further change signal is accepted
\* within the cooldown window (COOLDOWN_TIME_MS) of that accepted event.
C1_OneAcceptPerWindow ==
    [][accept_age < COOLDOWN_TIME_MS => ~last'.accepted]_vars

\* C2: while a set_cooldown request is younger than the cooldown window (its
\* own timer still has time left) the gate is closed, whatever earlier timers
\* have expired.
C2_LaterRequestKeepsGateClosed ==
    (\E t \in 1..COOLDOWN_TIME_MS : cooldown_timers[t] > 0) => is_on_cooldown

\* C3: a sticky popup has no running countdown, and no step starts the exit
\* of a popup that is sticky before or after the step.
C3_PinnedNeverBeginsExit ==
    /\ [](\A p \in Ids : Sticky(p) => popups[p].lifecycle_timer = Inactive)
    /\ [][\A p \in Ids : BeginsExit(p) => ~popups[p].is_sticky /\ ~popups'[p].is_sticky]_vars

\* C3 witness: a change was accepted while a popup pinned in mid-countdown is
\* live and not exiting.
C3_Witness ==
    /\ Accepted
    /\ \E p \in Live : /\ Sticky(p) /\ ~Exiting(p)
                       /\ popups[p].lifecycle_remaining < LIFECYCLE_SECONDS

\* C4: no popup is removed from the live set while its sticky flag is set.
C4_PinnedNeverDisposed ==
    [][\A p \in Ids : Removed(p) => ~popups[p].is_sticky]_vars

\* C5: unpinning a popup whose remembered remaining countdown is zero begins
\* its exit in that step.
C5_UnpinAtZeroBeginsExit ==
    [][\A p \in Ids : UnpinStep(p) /\ popups[p].lifecycle_remaining = 0
                        => popups'[p].is_sliding_out]_vars

\* C6: pinning a popup whose countdown runs remembers the previous remaining
\* time minus the time the countdown has run, floored at 0; unpinning with
\* time left restarts the countdown with exactly the remembered time; so the
\* remembered time never exceeds the initial lifetime.
C6_RemainingIsLifetimeMinusRun ==
    /\ [](\A p \in Ids : popups[p].lifecycle_remaining <= LIFECYCLE_SECONDS)
    /\ [][\A p \in Ids :
            /\ PinStep(p) /\ popups[p].lifecycle_timer # Inactive
                 => popups'[p].lifecycle_remaining
                        = Max(0, popups[p].lifecycle_remaining - Elapsed(p))
            /\ UnpinStep(p) /\ popups[p].lifecycle_remaining > 0
                 => popups'[p].lifecycle_timer = popups[p].lifecycle_remaining]_vars

\* C7: a change accepted while a live popup is sticky creates nothing and
\* starts no exit: live set, popups and theme index stay as they were.
C7_StickySuppressesCreation ==
    [][last'.accepted /\ is_any_popup_sticky(active_popups, popups)
         => /\ active_popups' = active_popups
            /\ popups' = popups
            /\ current_color_mode' = current_color_mode]_vars

\* C7 witness: a change was accepted, and created nothing, while a popup is sticky.
C7_Witness ==
    Accepted /\ last.popup = NoPopup /\ is_any_popup_sticky(active_popups, popups)

\* C8: an accepted change plays exactly one sound unless its descriptor is
\* Cleared, and then none.
C8_OneSoundUnlessCleared ==
    Accepted => last.sounds = (IF last.type = "clear" THEN 0 ELSE 1)

\* C8 witness: a non-Cleared change accepted while a popup is sticky played
\* its sound.
C8_Witness ==
    /\ Accepted /\ last.type # "clear" /\ last.sounds = 1
    /\ is_any_popup_sticky(active_popups, popups)

\* C9: a creation that finds a non-exiting popup in the live set starts the
\* exit of exactly one popup, the oldest non-sticky non-exiting one, and
\* appends the new popup; no creation starts more than one exit.
C9_CreationEvictsOldest ==
    [][Len(popups') > Len(popups) =>
         LET cand == {i \in 1..Len(active_popups) :
                        /\ ~popups[active_popups[i]].is_sliding_out
                        /\ ~popups[active_popups[i]].is_sticky}
             live_not_exiting == {i \in 1..Len(active_popups) :
                                    ~popups[active_popups[i]].is_sliding_out}
             began == {p \in Ids : BeginsExit(p)}
         IN /\ Cardinality(began) <= 1
            /\ live_not_exiting # {} =>
                 /\ cand # {}
                 /\ began = {active_popups[CHOOSE i \in cand : \A j \in cand : i <= j]}
            /\ active_popups' = Append(active_popups, Len(popups'))
            /\ ~popups'[Len(popups')].is_sliding_out]_vars

\* C9 witness: the popup just created is live behind a popup whose exit
\* animation has just started.
C9_Witness ==
    /\ Accepted /\ last.popup # NoPopup
    /\ \E p \in Live : /\ p # last.popup /\ Exiting(p)
                       /\ popups[p].anim_group = SLIDE_OUT_DURATION

\* C10: a popup leaves the live set only when its own exit animation has run
\* to its end, and the step that begins its exit leaves it in the live set.
C10_RemovedOnlyByExitCompletion ==
    [][/\ Live \ Live' \subseteq
            {p \in Ids : popups[p].is_sliding_out /\ popups[p].anim_group = 0}
       /\ {p \in Live : BeginsExit(p)} \subseteq Live']_vars

\* C10 witness: a popup has been removed from the live set while another is live.
C10_Witness ==
    /\ \E p \in Ids : p \notin Live
    /\ Live # {}

\* Helpers of the size-aggregation claims.
SumOver(seq, val(_)) ==
    LET t[k \in 0..Len(seq)] == IF k = 0 THEN 0 ELSE t[k - 1] + val(seq[k])
    IN t[Len(seq)]
Emissions(c) == Cardinality({k \in 1..Len(emitted) : emitted[k].calc = c})
JoinOf(c) == CHOOSE f \in 1..Len(futures) : futures[f].fn = "aggregate" /\ futures[f].calc = c
\* Node n can be read starting from the listed path r: every directory from r
\* down to n's own can be stat'ed and scanned.
RECURSIVE ReadableFrom(_, _)
ReadableFrom(r, n) ==
    IF n = r THEN TRUE
    ELSE IF FileSystem[n].parent = 0 THEN FALSE
    ELSE LET d == FileSystem[FileSystem[n].parent]
         IN d.kind = "dir" /\ d.ok /\ d.scan /\ ReadableFrom(r, FileSystem[n].parent)
\* The bytes of the accessible regular files at or under the listed path r.
AccessibleBytes(r) ==
    SumOver([n \in Nodes |-> n],
            LAMBDA n : IF FileSystem[n].kind = "file" /\ FileSystem[n].ok /\ ReadableFrom(r, n)
                       THEN FileSystem[n].size ELSE 0)

\* C11: a call of calculate_total_size_async has emitted calculation_done once
\* when its join task has ended and not at all before, whatever its number of
\* paths and however its per-path tasks ended; and every emission is made by
\* the step in which the join task of that call ends.
C11_ExactlyOneHandOff ==
    /\ [](\A c \in Calcs :
            Emissions(c) = (IF futures[JoinOf(c)].state = "FINISHED" THEN 1 ELSE 0))
    /\ [][emitted' # emitted =>
            \E f \in threads \ threads' :
                /\ futures[f].fn = "aggregate"
                /\ Len(emitted') = Len(emitted) + 1
                /\ SubSeq(emitted', 1, Len(emitted)) = emitted
                /\ emitted'[Len(emitted')].calc = futures[f].calc]_vars

\* C11 witness: two calls have each handed off once, one of them with a
\* per-path task that failed.
C11_Witness ==
    /\ Cardinality(Calcs) = 2
    /\ \A c \in Calcs : Emissions(c) = 1
    /\ \E f \in 1..Len(futures) : futures[f].exception

\* C12: every call of calculate_total_size_async that has been made eventually
\* has its result emitted: a call once made stays made, so this says that
\* again and again every call made so far has had its one emission.
C12_EveryAggregationDelivers ==
    []<>(\A c \in Calcs : Emissions(c) = 1)

\* C12 witness: every worker thread is taken, one of them by a join task that
\* waits for a per-path task not finished yet, and a second call is queued.
C12_Witness ==
    /\ Cardinality(threads) = MaxWorkers
    /\ work_queue # <<>>
    /\ Cardinality(Calcs) > 1
    /\ \E f \in threads :
          /\ futures[f].fn = "aggregate"
          /\ \E k \in 1..Len(futures[f].waits) : futures[futures[f].waits[k]].state # "FINISHED"

\* C13: the sum a call emits is >= 0 and is the sum, over the listed paths
\* whose task did not fail, of the bytes of the accessible regular files at or
\* under that path; a failed task and an unreadable entry count zero.
C13_AggregateIsAccessibleBytes ==
    \A k \in 1..Len(emitted) :
        /\ emitted[k].total_size >= 0
        /\ emitted[k].total_size =
              SumOver(futures[JoinOf(emitted[k].calc)].waits,
                      LAMBDA f : IF futures[f].exception THEN 0
                                 ELSE AccessibleBytes(futures[f].path))

\* C13 witness: a sum was emitted for a list with a directory that holds
\* readable files, an entry that cannot be stat'ed and a subdirectory that
\* cannot be scanned, next to a path that is gone; and a sum for a call with a
\* failed task.
C13_Witness ==
    /\ \E k \in 1..Len(emitted) :
          /\ emitted[k].total_size > 0
          /\ \E f \in 1..Len(futures) :
                /\ futures[f].calc = emitted[k].calc
                /\ futures[f].path = 2
                /\ ~futures[f].exception
    /\ \E k \in 1..Len(emitted) :
          \E f \in 1..Len(futures) : futures[f].calc = emitted[k].calc /\ futures[f].exception

\* C14: the delivery of a size result for a popup that has left the live set
\* changes no popup and nothing else of the monitor; for a popup still in the
\* live set it changes that popup's bottom text and nothing else.
C14_StaleResultDiscarded ==
    [][\A p \in calc_pending \ calc_pending' :
          /\ UNCHANGED <<now, is_on_cooldown, cooldown_timers, active_popups,
                         current_color_mode, echo_pending>>
          /\ Len(popups') = Len(popups)
          /\ \A q \in Ids \ {p} : popups'[q] = popups[q]
          /\ IF p \in Live
             THEN /\ popups'[p] = [popups[p] EXCEPT !.bottom_text = "final"]
                  /\ popups[p].bottom_text = "busy"
             ELSE popups'[p] = popups[p]]_vars

\* C14 witness: the result of a disposed popup has been delivered and the popup
\* still carries the busy marker, while the result of a live popup has been
\* written to it.
C14_Witness ==
    /\ \E p \in Ids \ Live : /\ p \notin calc_pending
                             /\ popups[p].original_data.type = "file"
                             /\ popups[p].bottom_text = "busy"
    /\ \E q \in Live : popups[q].bottom_text = "final"

\* C15: slide_out on a popup that is sliding out only stops its timers: the
\* popup stays exiting and its exit animation, hence its one disposal, is never
\* started again; close_popup on a popup that has left the live set, once or
\* twice, leaves the live set and the popup as they are.
C15_ExitAndDisposalIdempotent ==
    /\ [](\A p \in Ids :
            /\ popups[p].is_sliding_out =>
                 slide_out(popups[p]) = [popups[p] EXCEPT !.lifecycle_timer = Inactive]
            /\ p \notin Live =>
                 /\ close_popup_list(active_popups, p) = active_popups
                 /\ close_popup_list(close_popup_list(active_popups, p), p) = active_popups
                 /\ close_popup_state(popups[p]) = popups[p]
                 /\ close_popup_state(close_popup_state(popups[p])) = popups[p])
    /\ [][\A p \in Ids :
            popups[p].is_sliding_out =>
                /\ popups'[p].is_sliding_out
                /\ popups'[p].anim_group <= popups[p].anim_group]_vars

\* C15 witness: a popup has been disposed, and a live popup that is not sticky
\* is sliding out with its exit animation at its end, where a click calls
\* slide_out on it once more.
C15_Witness ==
    /\ \E p \in Ids : p \notin Live
    /\ \E q \in Live : /\ popups[q].is_sliding_out /\ ~popups[q].is_sticky
                       /\ popups[q].anim_group = 0

\* C16: the change signal echoed by an in-place copy is ignored by the gate:
\* the step that delivers it accepts nothing, plays no sound beyond the one of
\* the copy itself, classifies nothing and creates no popup.
C16_EchoIgnored ==
    [][echo_pending' < echo_pending =>
          /\ ~last'.accepted
          /\ last'.sounds = 0
          /\ last'.type = "none"
          /\ Len(popups') = Len(popups)]_vars

\* A content set for which process_clipboard_data returns None: URLs are
\* announced but none is remote and no local one exists, or an image is
\* announced and the pixmap is null.
Unclassifiable(mime) ==
    \/ /\ mime.hasUrls
       /\ \A i \in 1..Len(mime.urls) : mime.urls[i].local /\ ~mime.urls[i].exists
    \/ /\ ~mime.hasUrls /\ mime.hasImage /\ mime.pixmapNull

\* C17: a change signal that finds the gate open and content without a
\* descriptor changes nothing: no popup is created or told to slide out, no
\* sound is played, no aggregation is started and the gate stays open.
C17_NoDescriptorNoAction ==
    [][clipboard' # clipboard /\ ~is_on_cooldown /\ Unclassifiable(clipboard') =>
          /\ UNCHANGED <<active_popups, popups, current_color_mode, calc_pending,
                         cooldown_timers, pool_vars>>
          /\ ~is_on_cooldown'
          /\ last'.sounds = 0
          /\ ~last'.accepted]_vars

\* C17 witness: content without a descriptor is on the clipboard, the gate is
\* open and a popup that is not sliding out is live.
C17_Witness ==
    /\ Unclassifiable(clipboard)
    /\ ~is_on_cooldown
    /\ \E p \in Live : ~popups[p].is_sliding_out

\* What the content set on the clipboard offers, in the order of priority.
HasReferences == clipboard.hasUrls
HasImage == clipboard.hasImage
HasText == clipboard.hasText /\ clipboard.text # ""
HasTypes == Len(clipboard.formats) > 0
Classified == descriptor # NotClassified
FromReferences == descriptor.type = "file" \/ (descriptor.type = "other" /\ descriptor.top_text = "urls")
FromTypes == descriptor.type = "other" /\ descriptor.top_text # "urls"
IsNoise(f) == f \in NoiseFormats \/ f \in QtInternalFormats
\* The first identifier of the list that is not noise.
FirstRemaining(formats) ==
    formats[CHOOSE i \in 1..Len(formats) :
                ~IsNoise(formats[i]) /\ \A j \in 1..(i - 1) : IsNoise(formats[j])]

\* C18: the descriptor comes from the references only when references are
\* present, from the image only when there are no references, from the text
\* only when there are neither references nor an image, from the other types
\* only when there is none of these, and is Cleared only when there is nothing;
\* and a present representation of higher priority leaves nothing to the lower
\* ones: with references the result is theirs or none, and so on down.
C18_StrictPriority ==
    Classified =>
        /\ FromReferences => HasReferences
        /\ descriptor.type = "image" => ~HasReferences /\ HasImage
        /\ descriptor.type = "text" => ~HasReferences /\ ~HasImage /\ HasText
        /\ FromTypes => ~HasReferences /\ ~HasImage /\ ~HasText /\ HasTypes
        /\ descriptor.type = "clear" =>
             ~HasReferences /\ ~HasImage /\ ~HasText /\ ~HasTypes
        /\ HasReferences => FromReferences \/ descriptor = NoData
        /\ ~HasReferences /\ HasImage => descriptor.type = "image" \/ descriptor = NoData
        /\ ~HasReferences /\ ~HasImage /\ HasText =>
             descriptor.type = "text" /\ descriptor.top_text = clipboard.text

\* C18 witness: a content set with an image and a text has been classified as
\* the image.
C18_Witness ==
    /\ Classified /\ HasImage /\ HasText /\ ~HasReferences
    /\ descriptor.type = "image"

\* C19: a content set with no type identifier is classified as Cleared, and
\* no content set with a type identifier is.
C19_ClearedIffNoTypes ==
    Classified => (descriptor.type = "clear" <=> ~HasTypes)

\* C19 witness: a content set whose only type identifier is noise has been
\* classified, and not as Cleared.
C19_Witness ==
    /\ Classified /\ HasTypes
    /\ \A i \in 1..Len(clipboard.formats) : IsNoise(clipboard.formats[i])
    /\ ~HasReferences /\ ~HasImage /\ ~HasText
    /\ descriptor.type = "other"

\* C20: for content that reaches the Other branch the reported type is the
\* first identifier left after the noise identifiers are filtered out, and
\* never a noise identifier.
C20_ReportedTypeNeverNoise ==
    Classified /\ ~HasReferences /\ ~HasImage /\ ~HasText /\ HasTypes =>
        /\ descriptor.type = "other"
        /\ ~IsNoise(descriptor.top_text)
        /\ descriptor.top_text = FirstRemaining(clipboard.formats)

\* C20 as amended: the reported type is the first identifier left after the
\* noise identifiers are filtered out when one is left, and the first
\* identifier of the unfiltered list when all are noise; a noise identifier is
\* reported only then.
C20_ReportedTypeFirstRemainingOrFirst ==
    Classified /\ ~HasReferences /\ ~HasImage /\ ~HasText /\ HasTypes =>
        /\ descriptor.type = "other"
        /\ IF \E i \in 1..Len(clipboard.formats) : ~IsNoise(clipboard.formats[i])
           THEN descriptor.top_text = FirstRemaining(clipboard.formats)
           ELSE descriptor.top_text = clipboard.formats[1]

\* C20 witness: content with a noise identifier in front of another identifier
\* has reached the Other branch and the other identifier is reported.
C20_Witness ==
    /\ Classified /\ ~HasReferences /\ ~HasImage /\ ~HasText
    /\ Len(clipboard.formats) > 1
    /\ IsNoise(clipboard.formats[1])
    /\ descriptor.type = "other"
    /\ descriptor.top_text = clipboard.formats[2]

\* The unit the 1024 thresholds select for a byte count.
UnitOf(n) ==
    IF n < 1024 THEN "b"
    ELSE IF n \div 1024 < 1024 THEN "K"
    ELSE IF n \div (1024 * 1024) < 1024 THEN "Mb"
    ELSE "Gb"
Formatted == size_text # NotFormatted

\* C21 (as stated): format_size renders a byte count in the unit the 1024
\* thresholds select, and the number shown lies in that unit's range: an
\* integer 0..1023 for b and K, a one-decimal value below 1024.0 for Mb
\* (shown counts tenths for Mb).
C21_ShownWithinUnitRange ==
    Formatted =>
        /\ size_text.unit = UnitOf(size_input)
        /\ size_text.unit \in {"b", "K"} => size_text.shown \in 0..1023
        /\ size_text.unit = "Mb" => size_text.shown < 10 * 1024

\* C21 (amended): the unit is the one the 1024 thresholds select; b shows the
\* byte count itself (0..1023); K shows the integer nearest to n/1024, which
\* lies in 1..1024, 1024 included; Mb shows a one-decimal value from 1.0 to
\* 1024.0, 1024.0 included, within one unit above the whole Mb of n.
C21_ShownIsRoundedValue ==
    Formatted =>
        LET n == size_input
            shown == size_text.shown
            whole_mb == n \div (1024 * 1024)
        IN /\ size_text.unit = UnitOf(n)
           /\ size_text.unit = "b" => shown = n /\ shown \in 0..1023
           /\ size_text.unit = "K" =>
                 /\ shown \in 1..1024
                 /\ 1024 * shown - n <= 512
                 /\ n - 1024 * shown <= 512
           /\ size_text.unit = "Mb" =>
                 /\ shown \in 10..(10 * 1024)
                 /\ 10 * whole_mb <= shown
                 /\ shown <= 10 * whole_mb + 10

\* A count just below a threshold has been rendered as 1024 of the lower unit.
C21_Witness ==
    /\ Formatted
    /\ \/ size_text.unit = "K" /\ size_text.shown = 1024
       \/ size_text.unit = "Mb" /\ size_text.shown = 10 * 1024

\* The entry animation of a live notification has not run to its end.
Entering(p) == p \in Live /\ popups[p].slide_anim # Inactive
\* The countdown timer of a notification is active (a due timer included).
CountdownRuns(p) == popups[p].lifecycle_timer # Inactive

\* C22: the countdown is started by the completion of the entry transition:
\* while a notification is still Entering its countdown does not run, so none
\* can expire.
C22_NoCountdownWhileEntering ==
    \A p \in Ids : Entering(p) => ~CountdownRuns(p)

\* C23: a notification created for a descriptor that carries paths shows the
\* busy marker in the state its creation leaves and in every state until its
\* aggregate is delivered, and a bottom text that shows a delivered final size
\* is never changed again, by the busy marker or otherwise.
C23_BusyUntilDelivered ==
    /\ [](/\ (Accepted /\ last.type = "file" /\ last.popup # NoPopup) =>
                 (last.popup \in calc_pending /\ popups[last.popup].bottom_text = "busy")
           /\ \A p \in calc_pending : popups[p].bottom_text = "busy")
    /\ [][\A p \in Ids : popups[p].bottom_text = "final" =>
                              popups'[p].bottom_text = "final"]_vars

\* C23 witness: the final size of a live notification has been delivered while
\* a later notification still waits for its own and shows the busy marker.
C23_Witness ==
    \E p, q \in Live :
        /\ p < q
        /\ p \notin calc_pending /\ popups[p].bottom_text = "final"
        /\ q \in calc_pending /\ popups[q].bottom_text = "busy"

\* C24: a step that unpins a notification leaves its top content equal to the
\* descriptor's original text, whatever the content was before the step, and
\* no step changes the descriptor stored in a notification.
C24_UnpinRestoresOriginalText ==
    [][\A p \in Ids :
          /\ popups'[p].original_data = popups[p].original_data
          /\ UnpinStep(p) =>
                popups'[p].top_content = popups[p].original_data.top_text]_vars

\* C25: at most one notification of the live set is not exiting.
C25_AtMostOneNotExiting ==
    Cardinality({p \in Live : ~Exiting(p)}) <= 1

\* C25 witness: three notifications are live, the newest one not exiting and
\* the two before it in their exit transition.
C25_Witness ==
    /\ Len(active_popups) >= 3
    /\ Cardinality({p \in Live : ~Exiting(p)}) = 1

\* The timers and animation ends that the event loop delivers by itself.
FairTimers ==
    /\ WF_vars(Tick)
    /\ WF_vars(CooldownTimeout)
    /\ WF_vars(EchoChanged)
    /\ \A p \in 1..MaxPopups :
          /\ WF_vars(p \in Ids /\ LifecycleTimeout(p))
          /\ WF_vars(p \in Ids /\ SlideInFinished(p))
          /\ WF_vars(p \in Ids /\ close_popup(p))

SpecFair == Spec /\ FairTimers

\* C26: when timers fire and exit transitions complete, no notification stays
\* in the live set and unpinned for ever: a notification that stays unpinned
\* from some point on is eventually removed from the live set.
C26_UnpinnedEventuallyDisposed ==
    \A p \in 1..MaxPopups : []<>(p \in Live => Sticky(p))

====
